---- MODULE Spec2Model ----
(***************************************************************************)
(* The frame loop of hobo-plus: animation_with_window (src/src/lib.rs).    *)
(*                                                                         *)
(* animation_with_window stores a closure in the shared cell cb, registers *)
(* it with the host window for the next frame and returns.  Each time the  *)
(* host delivers a frame notification (a tick) the closure runs once, from *)
(* its first line to a return: ticks never overlap, so one tick is one     *)
(* action.  The host side (the window being closed, the closed query or a  *)
(* scheduling call failing, the timestamps, the value f returns) is chosen *)
(* nondeterministically.                                                   *)
(***************************************************************************)
EXTENDS Integers, Sequences, FiniteSets, TLC

\* Largest timestamp the host hands to a tick (timestamps are 0..MaxTs).
MaxTs == 33
\* Number of ticks that may get past the closed check in one run.
MaxTicks == 3

\* Option<f64>: None, Some(x)
None == <<>>
Some(x) == <<x>>
Unwrap(o) == o[1]

VARIABLES
    pc,              \* "idle": animation_with_window not called yet;
                     \* "running": it returned, the loop lives in host callbacks;
                     \* "aborted": an unwrap() of a failed scheduling call panicked
    cb,              \* TRUE iff the cell cb holds Some(closure)   (lib.rs:49,51)
    last_timestamp,  \* None or Some(timestamp) recorded by the last tick (lib.rs:50)
    f_calls,         \* the invocations of f so far: <<[delta, ret], ...>>
    pending,         \* frame registrations the host holds for this loop
    raf_log,         \* result of every request_animation_frame call so far:
                     \* TRUE for Ok(handle), FALSE for Err(_)
    closed,          \* TRUE iff the host window is closed
    nticks,          \* ticks the host has delivered so far
    ticks,           \* timestamps of the ticks that got past the closed check
    query,           \* what window.closed() returned to the last tick
    work             \* the steps the last tick performed, in order

vars == <<pc, cb, last_timestamp, f_calls, pending, raf_log, closed,
          nticks, ticks, query, work>>

(***************************************************************************)
(* The element helpers of AsElementExt (src/src/element_ext.rs) have their *)
(* own state; each group below is driven by its own specification.         *)
(***************************************************************************)
VARIABLES
    clicked_cmp,     \* the element's Clicked component: None or Some(flag)
    listeners,       \* listeners report_clicked has added: [down, up] counts
    slides,          \* one entry per slide callback: [since, calls]
    events,          \* the mouse events delivered so far: "down", "up", "move"
    reported_at,     \* Len(events) when the Clicked component was added, or -1
    report_calls,    \* calls of report_clicked_on_window so far
    clicked_ret      \* the last call of clicked(): [made, had, out]

cvars == <<clicked_cmp, listeners, slides, events, reported_at, report_calls,
           clicked_ret>>

\* An element on which no helper has been called.
ClickInit ==
    /\ clicked_cmp = None
    /\ listeners = [down |-> 0, up |-> 0]
    /\ slides = <<>>
    /\ events = <<>>
    /\ reported_at = -1
    /\ report_calls = 0
    /\ clicked_ret = [made |-> FALSE, had |-> FALSE, out |-> "none"]

VARIABLES
    slide_args,      \* inputs of one slide position: [mouse_x, left, width]
    slide_pos        \* the position computed from them, F64Unset before

pvars == <<slide_args, slide_pos>>

F64Unset == [k |-> "unset", n |-> 0, d |-> 0]

\* No slide position has been asked for.
PosInit ==
    /\ slide_args = [mouse_x |-> 0, left |-> 0, width |-> 0]
    /\ slide_pos = F64Unset

VARIABLES
    flip_args,       \* inputs of one flip_if_offscreen call
    flip_out         \* its effects: [called, style, warnings, set_style]

fvars == <<flip_args, flip_out>>

NoFlipOut == [called |-> FALSE, style |-> <<>>, warnings |-> <<>>, set_style |-> 0]

\* flip_if_offscreen has not been called.
FlipInit ==
    /\ flip_args = <<>>
    /\ flip_out = NoFlipOut

VARIABLES
    flow_calls,      \* per set_on_next_flow call: did request_animation_frame succeed
    flow_log,        \* the calls and the invocations of their f, in order
    flow_queue,      \* the calls whose frame notification the host still holds
    flow_runs,       \* per set_on_next_flow call: how often its f was invoked
    flow_pc          \* "ok", or "aborted" after the unwrap() of line 197 panicked

nvars == <<flow_calls, flow_log, flow_queue, flow_runs, flow_pc>>

\* set_on_next_flow has not been called.
FlowInit ==
    /\ flow_calls = <<>>
    /\ flow_log = <<>>
    /\ flow_queue = <<>>
    /\ flow_runs = <<>>
    /\ flow_pc = "ok"

allvars == <<vars, cvars, pvars, fvars, nvars>>

Last(s) == s[Len(s)]

\* What window.closed() can return in the current host state:
\* "true" for Ok(true), "false" for Ok(false), "err" for Err(_).
HostQuery == (IF closed THEN {"true"} ELSE {"false"}) \cup {"err"}

\* Mutant of ClosedCheck: the test of the query's answer is inverted.
ClosedCheckInverted(q) == IF q = "err" THEN TRUE ELSE q = "false"

\* Mutant of ClosedCheck: a failed query counts as an open window.
ClosedCheckErrIsOpen(q) == IF q = "err" THEN FALSE ELSE q = "true"

\* window.closed().unwrap_or(true)
ClosedCheck(q) == IF q = "err" THEN TRUE ELSE q = "true"

\* Mutant of DeltaT: the operands are swapped.
DeltaTSwapped(timestamp, last) == last - timestamp

\* timestamp - *last_timestamp
DeltaT(timestamp, last) == timestamp - last

\* Host timestamps never go backwards.
HostTimes == (IF ticks = <<>> THEN 0 ELSE Last(ticks)) .. MaxTs

\* The state before animation_with_window is called.
LoopInit ==
    /\ pc = "idle"
    /\ cb = FALSE
    /\ last_timestamp = None
    /\ f_calls = <<>>
    /\ pending = 0
    /\ raf_log = <<>>
    /\ closed \in BOOLEAN
    /\ nticks = 0
    /\ ticks = <<>>
    /\ query = "none"
    /\ work = <<>>

Init == LoopInit /\ ClickInit /\ PosInit /\ FlipInit /\ FlowInit

\* animation_with_window: fill the cell, register the first frame.  A panic
\* (the unwrap() of a failed scheduling call) runs no destructor of the
\* leaked closure: the cell is left as it is.
Start(ok) ==
    /\ pc = "idle"
    /\ cb' = TRUE
    /\ last_timestamp' = None
    /\ raf_log' = Append(raf_log, ok)
    /\ IF ok
         THEN pending' = pending + 1 /\ pc' = "running"
         ELSE pending' = pending /\ pc' = "aborted"
    /\ UNCHANGED <<f_calls, closed, nticks, ticks, query, work>>

\* Mutant of TickClosed: returns without taking the closure out of the cell.
TickClosedKeepsCb ==
    /\ cb' = cb
    /\ pending' = pending - 1
    /\ work' = <<"closed_check">>
    /\ UNCHANGED <<pc, last_timestamp, f_calls, raf_log, ticks>>

\* Line 55: the window is closed (or the query failed): empty the cell, return.
TickClosed ==
    /\ cb' = FALSE
    /\ pending' = pending - 1
    /\ work' = <<"closed_check", "release">>
    /\ UNCHANGED <<pc, last_timestamp, f_calls, raf_log, ticks>>

\* Mutant of TickPrime: the first tick invokes f, with the timestamp as delta.
TickPrimeInvokesF(timestamp, ok) ==
    /\ raf_log' = Append(raf_log, ok)
    /\ ticks' = Append(ticks, timestamp)
    /\ f_calls' = Append(f_calls, [delta |-> timestamp, ret |-> TRUE])
    /\ IF ok
         THEN /\ pending' = (pending - 1) + 1
              /\ last_timestamp' = Some(timestamp)
              /\ work' = <<"closed_check", "invoke_f", "check_f_result",
                           "schedule", "record_timestamp">>
              /\ pc' = pc
         ELSE /\ pending' = pending - 1
              /\ last_timestamp' = last_timestamp
              /\ work' = <<"closed_check", "invoke_f", "check_f_result",
                           "schedule_failed">>
              /\ pc' = "aborted"
    /\ UNCHANGED cb

\* Mutant of TickPrime: the first tick registers the next frame twice.
TickPrimeSchedulesTwice(timestamp, ok) ==
    /\ raf_log' = raf_log \o <<ok, ok>>
    /\ ticks' = Append(ticks, timestamp)
    /\ IF ok
         THEN /\ pending' = (pending - 1) + 2
              /\ last_timestamp' = Some(timestamp)
              /\ work' = <<"closed_check", "schedule", "schedule",
                           "record_timestamp">>
              /\ pc' = pc
         ELSE /\ pending' = pending - 1
              /\ last_timestamp' = last_timestamp
              /\ work' = <<"closed_check", "schedule_failed">>
              /\ pc' = "aborted"
    /\ UNCHANGED <<cb, f_calls>>

\* Lines 56-60: no previous timestamp: register the next frame, record, return.
TickPrime(timestamp, ok) ==
    /\ raf_log' = Append(raf_log, ok)
    /\ ticks' = Append(ticks, timestamp)
    /\ IF ok
         THEN /\ pending' = (pending - 1) + 1
              /\ last_timestamp' = Some(timestamp)
              /\ work' = <<"closed_check", "schedule", "record_timestamp">>
              /\ pc' = pc
         ELSE /\ pending' = pending - 1
              /\ last_timestamp' = last_timestamp
              /\ work' = <<"closed_check", "schedule_failed">>
              /\ pc' = "aborted"
    /\ UNCHANGED <<cb, f_calls>>

\* Mutant of TickInvoke: the next frame is registered before f is invoked, so
\* a registration is left behind when f returns false.
TickInvokeSchedulesFirst(timestamp, ret, ok) ==
    /\ last_timestamp' = Some(timestamp)
    /\ ticks' = Append(ticks, timestamp)
    /\ raf_log' = Append(raf_log, ok)
    /\ IF ok
         THEN /\ f_calls' = Append(f_calls,
                     [delta |-> DeltaT(timestamp, Unwrap(last_timestamp)),
                      ret |-> ret])
              /\ pending' = (pending - 1) + 1
              /\ pc' = pc
              /\ cb' = IF ret THEN cb ELSE FALSE
              /\ work' = <<"closed_check", "record_timestamp", "schedule",
                           "invoke_f", "check_f_result">>
                         \o (IF ret THEN <<>> ELSE <<"release">>)
         ELSE /\ f_calls' = f_calls
              /\ pending' = pending - 1
              /\ pc' = "aborted"
              /\ cb' = cb
              /\ work' = <<"closed_check", "record_timestamp",
                           "schedule_failed">>

\* Mutant of TickInvoke: the test of f's result is inverted.
TickInvokeInverted(timestamp, ret, ok) ==
    /\ last_timestamp' = Some(timestamp)
    /\ f_calls' = Append(f_calls, [delta |-> DeltaT(timestamp, Unwrap(last_timestamp)),
                                   ret |-> ret])
    /\ ticks' = Append(ticks, timestamp)
    /\ IF ~ret
         THEN /\ raf_log' = Append(raf_log, ok)
              /\ cb' = cb
              /\ IF ok
                   THEN /\ pending' = (pending - 1) + 1
                        /\ pc' = pc
                        /\ work' = <<"closed_check", "record_timestamp",
                                     "invoke_f", "check_f_result", "schedule">>
                   ELSE /\ pending' = pending - 1
                        /\ pc' = "aborted"
                        /\ work' = <<"closed_check", "record_timestamp",
                                     "invoke_f", "check_f_result",
                                     "schedule_failed">>
         ELSE /\ raf_log' = raf_log
              /\ cb' = FALSE
              /\ pending' = pending - 1
              /\ pc' = pc
              /\ work' = <<"closed_check", "record_timestamp",
                           "invoke_f", "check_f_result", "release">>

\* Mutant of TickInvoke: a failed scheduling call is ignored and made again.
TickInvokeRetries(timestamp, ret, ok) ==
    /\ last_timestamp' = Some(timestamp)
    /\ f_calls' = Append(f_calls, [delta |-> DeltaT(timestamp, Unwrap(last_timestamp)),
                                   ret |-> ret])
    /\ ticks' = Append(ticks, timestamp)
    /\ pc' = pc
    /\ IF ret
         THEN /\ raf_log' = raf_log \o (IF ok THEN <<TRUE>> ELSE <<FALSE, TRUE>>)
              /\ cb' = cb
              /\ pending' = (pending - 1) + 1
              /\ work' = <<"closed_check", "record_timestamp", "invoke_f",
                           "check_f_result">>
                         \o (IF ok THEN <<"schedule">>
                                   ELSE <<"schedule_failed", "schedule">>)
         ELSE /\ raf_log' = raf_log
              /\ cb' = FALSE
              /\ pending' = pending - 1
              /\ work' = <<"closed_check", "record_timestamp",
                           "invoke_f", "check_f_result", "release">>

\* Lines 61-67: compute the delta, record the timestamp, invoke f, then
\* register the next frame (f returned true) or empty the cell (false).
TickInvoke(timestamp, ret, ok) ==
    /\ last_timestamp' = Some(timestamp)
    /\ f_calls' = Append(f_calls, [delta |-> DeltaT(timestamp, Unwrap(last_timestamp)),
                                   ret |-> ret])
    /\ ticks' = Append(ticks, timestamp)
    /\ IF ret
         THEN /\ raf_log' = Append(raf_log, ok)
              /\ cb' = cb
              /\ IF ok
                   THEN /\ pending' = (pending - 1) + 1
                        /\ pc' = pc
                        /\ work' = <<"closed_check", "record_timestamp",
                                     "invoke_f", "check_f_result", "schedule">>
                   ELSE /\ pending' = pending - 1
                        /\ pc' = "aborted"
                        /\ work' = <<"closed_check", "record_timestamp",
                                     "invoke_f", "check_f_result",
                                     "schedule_failed">>
         ELSE /\ raf_log' = raf_log
              /\ cb' = FALSE
              /\ pending' = pending - 1
              /\ pc' = pc
              /\ work' = <<"closed_check", "record_timestamp",
                           "invoke_f", "check_f_result", "release">>

\* The host delivers one pending frame notification: the closure runs.
\* At most MaxTicks ticks get past the closed check; a tick that finds the
\* window closed returns before it reads its timestamp and is never held back.
Tick ==
    /\ pending > 0
    /\ Len(ticks) < MaxTicks \/ closed
    /\ \E q \in HostQuery :
         /\ query' = q
         /\ nticks' = nticks + 1
         /\ closed' = closed
         /\ IF ClosedCheck(q)
              THEN TickClosed
              ELSE \E timestamp \in HostTimes, ret \in BOOLEAN, ok \in BOOLEAN :
                     IF last_timestamp = None
                       THEN TickPrime(timestamp, ok)
                       ELSE TickInvoke(timestamp, ret, ok)

\* The user closes the window; a closed window stays closed.
CloseWindow ==
    /\ ~closed
    /\ closed' = TRUE
    /\ UNCHANGED <<pc, cb, last_timestamp, f_calls, pending, raf_log,
                   nticks, ticks, query, work>>

Next ==
    \/ (\E ok \in BOOLEAN : Start(ok)) /\ UNCHANGED <<cvars, pvars, fvars, nvars>>
    \/ Tick /\ UNCHANGED <<cvars, pvars, fvars, nvars>>
    \/ CloseWindow /\ UNCHANGED <<cvars, pvars, fvars, nvars>>

Spec == Init /\ [][Next]_allvars

\* The host delivers every frame notification it holds.
LiveSpec == Init /\ [][Next]_allvars /\ WF_vars(Tick)

(***************************************************************************)
(* The states of the loop, read off the program's own state.               *)
(***************************************************************************)
LoopState ==
    IF pc = "idle" THEN "Idle"
    ELSE IF pc = "aborted" THEN "Aborted"
    ELSE IF ~cb THEN "Stopped"
    ELSE IF last_timestamp = None THEN "Start"
    ELSE IF f_calls = <<>> THEN "Primed"
    ELSE "Ticking"

\* This step is a tick.
IsTick == nticks' = nticks + 1

\* f has returned false on some tick.
FReturnedFalse == \E i \in DOMAIN f_calls : ~f_calls[i].ret

\* The closed check of the last tick found the window closed.
SawClosed == query # "none" /\ ClosedCheck(query)

\* Some request_animation_frame call has failed.
RafFailed == \E i \in DOMAIN raf_log : ~raf_log[i]

(***************************************************************************)
(* Click and slide tracking: report_clicked_on_window, clicked and         *)
(* add_on_slide (src/src/element_ext.rs).  The application calls the       *)
(* helpers, the host delivers mouse events; every listener runs to its end *)
(* before the next event or call.                                          *)
(***************************************************************************)

\* Mouse events delivered in one run.
MaxEvents == 3
\* Slide callbacks registered in one run.
MaxSlides == 2
\* Direct calls of report_clicked in one run.
MaxReports == 2
\* Coordinates of the mouse and of the element are within -MaxCoord..MaxCoord.
MaxCoord == 1

\* f64 values: a ratio n/d of integers with d > 0, an infinity or NaN.
F64(n, d) == [k |-> "num", n |-> n, d |-> d]
F64Inf(sign) == [k |-> "inf", n |-> sign, d |-> 0]
F64NaN == [k |-> "nan", n |-> 0, d |-> 0]
F64Zero == F64(0, 1)
F64One == F64(1, 1)

\* a / b for integral a and b >= 0, as f64 division gives it.
F64Div(a, b) ==
    IF b # 0 THEN F64(a, b)
    ELSE IF a = 0 THEN F64NaN
    ELSE F64Inf(IF a > 0 THEN 1 ELSE -1)

\* x < y on f64 values; every comparison with NaN is false.
F64Lt(x, y) ==
    IF x.k = "nan" \/ y.k = "nan" THEN FALSE
    ELSE IF x.k = "inf" THEN x.n < 0 /\ ~(y.k = "inf" /\ y.n < 0)
    ELSE IF y.k = "inf" THEN y.n > 0
    ELSE x.n * y.d < y.n * x.d

\* x = y on f64 values.
F64Eq(x, y) ==
    IF x.k = "nan" \/ y.k = "nan" THEN FALSE
    ELSE IF x.k = "inf" \/ y.k = "inf" THEN x.k = y.k /\ x.n = y.n
    ELSE x.n * y.d = y.n * x.d

\* Mutant of F64Clamp: only the lower limit is applied.
F64ClampLowOnly(x, min, max) == IF F64Lt(x, min) THEN min ELSE x

\* f64::clamp(x, min, max): NaN stays NaN.
F64Clamp(x, min, max) ==
    IF F64Lt(x, min) THEN min
    ELSE IF F64Lt(max, x) THEN max
    ELSE x

\* Line 171: f64::clamp((mouse_x - self.left()) / self.width(), 0.0, 1.0)
SlidePosition(mouse_x, left, width) ==
    F64Clamp(F64Div(mouse_x - left, width), F64Zero, F64One)

\* Line 55: self.try_get_cmp::<Clicked>().is_some_and(|x| x.0)
ClickedFn(cmp) ==
    IF cmp = None THEN "false" ELSE IF Unwrap(cmp) THEN "true" ELSE "false"

\* Mutant of ReportClickedOnWindow: no early return when the component is there.
ReportClickedAgain ==
    /\ report_calls' = report_calls + 1
    /\ clicked_cmp' = Some(FALSE)
    /\ listeners' = [down |-> listeners.down + 1, up |-> listeners.up + 1]
    /\ reported_at' = Len(events)

\* Lines 43-51: report_clicked_on_window.
ReportClickedOnWindow ==
    /\ report_calls' = report_calls + 1
    /\ IF clicked_cmp # None
         THEN UNCHANGED <<clicked_cmp, listeners, reported_at>>
         ELSE /\ clicked_cmp' = Some(FALSE)
              /\ listeners' = [down |-> listeners.down + 1,
                               up |-> listeners.up + 1]
              /\ reported_at' = Len(events)

\* The application calls report_clicked on the element.
ReportClicked ==
    /\ report_calls < MaxReports
    /\ ReportClickedOnWindow
    /\ UNCHANGED <<slides, events, clicked_ret>>

\* Lines 165-174: add_on_slide: report_clicked, then a mousemove listener on
\* the window that holds the callback f.
AddOnSlide ==
    /\ Len(slides) < MaxSlides
    /\ ReportClickedOnWindow
    /\ slides' = Append(slides, [since |-> Len(events), calls |-> <<>>])
    /\ UNCHANGED <<events, clicked_ret>>

\* The application reads clicked().
CallClicked ==
    /\ clicked_ret' = [made |-> TRUE, had |-> clicked_cmp # None,
                       out |-> ClickedFn(clicked_cmp)]
    /\ UNCHANGED <<clicked_cmp, listeners, slides, events, reported_at,
                   report_calls>>

\* A mousedown on the element: every listener of line 47 sets the flag.
MouseDown ==
    /\ Len(events) < MaxEvents
    /\ events' = Append(events, "down")
    /\ clicked_cmp' = IF listeners.down > 0 THEN Some(TRUE) ELSE clicked_cmp
    /\ UNCHANGED <<listeners, slides, reported_at, report_calls, clicked_ret>>

\* Mutant of MouseUp: the listener does not clear the flag.
MouseUpIgnored ==
    /\ Len(events) < MaxEvents
    /\ events' = Append(events, "up")
    /\ UNCHANGED <<clicked_cmp, listeners, slides, reported_at, report_calls,
                   clicked_ret>>

\* A mouseup on the window: every listener of line 48 clears the flag.
MouseUp ==
    /\ Len(events) < MaxEvents
    /\ events' = Append(events, "up")
    /\ clicked_cmp' = IF listeners.up > 0 THEN Some(FALSE) ELSE clicked_cmp
    /\ UNCHANGED <<listeners, slides, reported_at, report_calls, clicked_ret>>

\* Mutant of MouseMove: the listener does not test clicked().
MouseMoveUnguarded(mouse_x, left, width) ==
    /\ Len(events) < MaxEvents
    /\ events' = Append(events, "move")
    /\ slides' = [k \in DOMAIN slides |->
                    [slides[k] EXCEPT !.calls =
                        Append(@, SlidePosition(mouse_x, left, width))]]
    /\ UNCHANGED <<clicked_cmp, listeners, reported_at, report_calls,
                   clicked_ret>>

\* A mousemove on the window: every listener of lines 168-173 runs.
MouseMove(mouse_x, left, width) ==
    /\ Len(events) < MaxEvents
    /\ events' = Append(events, "move")
    /\ slides' = [k \in DOMAIN slides |->
                    IF ClickedFn(clicked_cmp) # "true"
                      THEN slides[k]
                      ELSE [slides[k] EXCEPT !.calls =
                              Append(@, SlidePosition(mouse_x, left, width))]]
    /\ UNCHANGED <<clicked_cmp, listeners, reported_at, report_calls,
                   clicked_ret>>

Coords == -MaxCoord .. MaxCoord
Widths == 0 .. MaxCoord

ClickNext ==
    \/ ReportClicked /\ UNCHANGED <<vars, pvars, fvars, nvars>>
    \/ AddOnSlide /\ UNCHANGED <<vars, pvars, fvars, nvars>>
    \/ CallClicked /\ UNCHANGED <<vars, pvars, fvars, nvars>>
    \/ MouseDown /\ UNCHANGED <<vars, pvars, fvars, nvars>>
    \/ MouseUp /\ UNCHANGED <<vars, pvars, fvars, nvars>>
    \/ (\E mouse_x \in Coords, left \in Coords, width \in Widths :
           MouseMove(mouse_x, left, width))
          /\ UNCHANGED <<vars, pvars, fvars, nvars>>

\* The frame loop is not started while the element helpers are exercised.
LoopIdle == LoopInit /\ ~closed

ClickSpecInit == ClickInit /\ LoopIdle /\ PosInit /\ FlipInit /\ FlowInit

ClickSpec == ClickSpecInit /\ [][ClickNext]_allvars

(***************************************************************************)
(* The slide position as a function of its inputs: one mousemove listener  *)
(* of add_on_slide on a pressed element, for every mouse x, element left   *)
(* and element width of the bounded sets.                                  *)
(***************************************************************************)

\* client_x of the mouse event is within -MaxMouse..MaxMouse.
MaxMouse == 150
\* The element's left edge is within -MaxLeft..MaxLeft.
MaxLeft == 1
\* The element's width is within 0..MaxWidth.
MaxWidth == 100

SlideArgs ==
    [mouse_x : -MaxMouse .. MaxMouse, left : -MaxLeft .. MaxLeft,
     width : 0 .. MaxWidth]

\* Lines 170-172 of the listener, the element being clicked.
SlideMove ==
    /\ slide_pos = F64Unset
    /\ slide_pos' = SlidePosition(slide_args.mouse_x, slide_args.left,
                                  slide_args.width)
    /\ UNCHANGED slide_args

PosNext == SlideMove /\ UNCHANGED <<vars, cvars, fvars, nvars>>

PosSpecInit ==
    /\ slide_args \in SlideArgs
    /\ slide_pos = F64Unset
    /\ LoopIdle /\ ClickInit /\ FlipInit /\ FlowInit

PosSpec == PosSpecInit /\ [][PosNext]_allvars

(***************************************************************************)
(* flip_if_offscreen (src/src/element_ext.rs:89-146) as a function of the  *)
(* two spacing arguments and of the geometry it reads: the parent's        *)
(* bounding rectangle, the element's size and the window's inner size.     *)
(***************************************************************************)

\* Pixel amounts of a spacing property are within -MaxPx..MaxPx.
MaxPx == 1
\* Edges and sizes of the geometry are within 0..MaxLen (the window: up to
\* MaxLen + 1).
MaxLen == 1

\* css::Property values handed in: a side with a pixel amount, or with an
\* offset that is not in pixels (a percentage, auto, ...).
Sides == {"Top", "Bottom", "Left", "Right"}
Properties ==
    [side : Sides, unit : {"Px"}, val : -MaxPx .. MaxPx]
        \cup [side : Sides, unit : {"Other"}, val : {0}]
Spacings == {None} \cup {Some(prop) : prop \in Properties}

Rects ==
    {rect \in [top : 0 .. MaxLen, bottom : 0 .. MaxLen,
               left : 0 .. MaxLen, right : 0 .. MaxLen] :
        rect.top <= rect.bottom /\ rect.left <= rect.right}

FlipArgs ==
    [spacing_v : Spacings, spacing_h : Spacings, parent : Rects,
     self_height : 0 .. MaxLen, self_width : 0 .. MaxLen,
     window_height : MaxLen .. MaxLen + 1, window_width : MaxLen .. MaxLen + 1]

\* css::PositionOffset::Some(css::unit!(100% + px px)) on a side.
Offset(side, px) == [side |-> side, pct |-> 100, px |-> px]

NoStyle == [style |-> <<>>, warnings |-> <<>>]

\* Mutant of FlipVertical: Top is flipped already when the element just fits.
FlipVerticalEager(v, a) ==
    IF v.side = "Top" /\ v.unit = "Px"
      THEN [style |-> <<Offset(IF a.parent.bottom + v.val + a.self_height
                                     >= a.window_height
                                  THEN "Bottom" ELSE "Top", v.val)>>,
            warnings |-> <<>>]
    ELSE IF v.side = "Bottom" /\ v.unit = "Px"
      THEN [style |-> <<Offset(IF a.parent.top - v.val - a.self_height < 0
                                  THEN "Top" ELSE "Bottom", v.val)>>,
            warnings |-> <<>>]
    ELSE [style |-> <<>>, warnings |-> <<"v">>]

\* Lines 98-118: the vertical spacing v.
FlipVertical(v, a) ==
    IF v.side = "Top" /\ v.unit = "Px"
      THEN [style |-> <<Offset(IF a.parent.bottom + v.val + a.self_height
                                     > a.window_height
                                  THEN "Bottom" ELSE "Top", v.val)>>,
            warnings |-> <<>>]
    ELSE IF v.side = "Bottom" /\ v.unit = "Px"
      THEN [style |-> <<Offset(IF a.parent.top - v.val - a.self_height < 0
                                  THEN "Top" ELSE "Bottom", v.val)>>,
            warnings |-> <<>>]
    ELSE [style |-> <<>>, warnings |-> <<"v">>]

\* Lines 122-142: the horizontal spacing h; the offset is 100% - h px.
FlipHorizontal(h, a) ==
    IF h.side = "Left" /\ h.unit = "Px"
      THEN [style |-> <<Offset(IF a.parent.right + h.val + a.self_width
                                     > a.window_width
                                  THEN "Right" ELSE "Left", -h.val)>>,
            warnings |-> <<>>]
    ELSE IF h.side = "Right" /\ h.unit = "Px"
      THEN [style |-> <<Offset(IF a.parent.left - h.val - a.self_width < 0
                                  THEN "Left" ELSE "Right", -h.val)>>,
            warnings |-> <<>>]
    ELSE [style |-> <<>>, warnings |-> <<"h">>]

\* Mutant of FlipIfOffscreen: a spacing that is warned about ends the call.
FlipIfOffscreenGivesUp(a) ==
    LET v == IF a.spacing_v = None THEN NoStyle
             ELSE FlipVertical(Unwrap(a.spacing_v), a)
        h == IF a.spacing_h = None THEN NoStyle
             ELSE FlipHorizontal(Unwrap(a.spacing_h), a)
    IN  IF v.warnings # <<>>
          THEN [called |-> TRUE, style |-> <<>>, warnings |-> v.warnings,
                set_style |-> 0]
        ELSE IF h.warnings # <<>>
          THEN [called |-> TRUE, style |-> <<>>, warnings |-> h.warnings,
                set_style |-> 0]
        ELSE [called |-> TRUE, style |-> v.style \o h.style,
              warnings |-> <<>>, set_style |-> 1]

\* Lines 89-146: flip_if_offscreen: the vertical block, the horizontal block,
\* then set_style with what they pushed.
FlipIfOffscreen(a) ==
    LET v == IF a.spacing_v = None THEN NoStyle
             ELSE FlipVertical(Unwrap(a.spacing_v), a)
        h == IF a.spacing_h = None THEN NoStyle
             ELSE FlipHorizontal(Unwrap(a.spacing_h), a)
    IN  [called |-> TRUE,
         style |-> v.style \o h.style,
         warnings |-> v.warnings \o h.warnings,
         set_style |-> 1]

\* The application calls flip_if_offscreen on the element.
Flip ==
    /\ ~flip_out.called
    /\ flip_out' = FlipIfOffscreen(flip_args)
    /\ UNCHANGED flip_args

FlipNext == Flip /\ UNCHANGED <<vars, cvars, pvars, nvars>>

FlipSpecInit ==
    /\ flip_args \in FlipArgs
    /\ flip_out = NoFlipOut
    /\ LoopIdle /\ ClickInit /\ PosInit /\ FlowInit

FlipSpec == FlipSpecInit /\ [][FlipNext]_allvars

(***************************************************************************)
(* set_on_next_flow (src/src/element_ext.rs:196-198): every call hands a   *)
(* one-shot closure around its f to request_animation_frame; the host runs *)
(* the closures it holds in the order they were registered.                *)
(***************************************************************************)

\* Calls of set_on_next_flow in one run.
MaxFlows == 4

\* Mutant of SetOnNextFlow: f is invoked at once as well as registered.
SetOnNextFlowRunsNow(ok) ==
    LET id == Len(flow_calls) + 1
    IN  /\ flow_pc = "ok"
        /\ Len(flow_calls) < MaxFlows
        /\ flow_calls' = Append(flow_calls, ok)
        /\ flow_runs' = Append(flow_runs, 1)
        /\ flow_log' = flow_log \o <<[op |-> "call", id |-> id],
                                     [op |-> "run", id |-> id]>>
        /\ IF ok
             THEN flow_queue' = Append(flow_queue, id) /\ flow_pc' = flow_pc
             ELSE flow_queue' = flow_queue /\ flow_pc' = "aborted"

\* Line 197: window().request_animation_frame(Closure::once_into_js(f)..).unwrap()
SetOnNextFlow(ok) ==
    LET id == Len(flow_calls) + 1
    IN  /\ flow_pc = "ok"
        /\ Len(flow_calls) < MaxFlows
        /\ flow_calls' = Append(flow_calls, ok)
        /\ flow_runs' = Append(flow_runs, 0)
        /\ flow_log' = Append(flow_log, [op |-> "call", id |-> id])
        /\ IF ok
             THEN flow_queue' = Append(flow_queue, id) /\ flow_pc' = flow_pc
             ELSE flow_queue' = flow_queue /\ flow_pc' = "aborted"

\* The host delivers the oldest frame notification it holds: the one-shot
\* closure invokes its f and is gone.
FlowFrame ==
    /\ flow_queue # <<>>
    /\ flow_runs' = [flow_runs EXCEPT ![Head(flow_queue)] = @ + 1]
    /\ flow_log' = Append(flow_log, [op |-> "run", id |-> Head(flow_queue)])
    /\ flow_queue' = Tail(flow_queue)
    /\ UNCHANGED <<flow_calls, flow_pc>>

FlowNext ==
    \/ (\E ok \in BOOLEAN : SetOnNextFlow(ok))
          /\ UNCHANGED <<vars, cvars, pvars, fvars>>
    \/ FlowFrame /\ UNCHANGED <<vars, cvars, pvars, fvars>>

FlowSpecInit == FlowInit /\ LoopIdle /\ ClickInit /\ PosInit /\ FlipInit

\* The host delivers every frame notification it holds.
FlowSpec ==
    FlowSpecInit /\ [][FlowNext]_allvars /\ WF_nvars(FlowFrame)

(***************************************************************************)
(* Claims.                                                                 *)
(***************************************************************************)

\* C1: f is not invoked during the first delivered tick; when the window is
\* open and the scheduling call succeeds, that tick records its timestamp as
\* last_timestamp and leaves exactly one frame registered.
C1_FirstTickSkipsF ==
    [][(nticks = 0 /\ IsTick) =>
          /\ f_calls' = <<>>
          /\ (~ClosedCheck(query') /\ Last(raf_log')) =>
                /\ last_timestamp' = Some(Last(ticks'))
                /\ Len(raf_log') = Len(raf_log) + 1
                /\ pending' = 1]_vars

C1_Witness ==
    /\ nticks = 1
    /\ ticks = <<16>>
    /\ last_timestamp = Some(16)
    /\ pending = 1
    /\ f_calls = <<>>

\* C2: the n-th invocation of f receives the timestamp of the tick that makes
\* it minus the timestamp of the tick before, and last_timestamp then holds
\* the timestamp of the current tick.
C2_DeltaIsDifference ==
    /\ \A n \in DOMAIN f_calls :
          /\ n + 1 \in DOMAIN ticks
          /\ f_calls[n].delta = ticks[n + 1] - ticks[n]
    /\ f_calls # <<>> =>
          /\ Len(ticks) = Len(f_calls) + 1
          /\ last_timestamp = Some(Last(ticks))

C2_Witness ==
    /\ ticks = <<0, 16, 33>>
    /\ f_calls = <<[delta |-> 16, ret |-> TRUE], [delta |-> 17, ret |-> FALSE]>>
    /\ last_timestamp = Some(33)

\* C3: once f has returned false, no frame is registered or requested any
\* more, f is not invoked again, no tick is delivered, and the cell cb is
\* empty.
C3_StopOnFalse ==
    /\ [](FReturnedFalse => pending = 0 /\ ~cb /\ ~Last(f_calls).ret)
    /\ [][FReturnedFalse =>
            /\ f_calls' = f_calls
            /\ raf_log' = raf_log
            /\ nticks' = nticks
            /\ pending' = 0
            /\ cb' = FALSE]_vars

C3_Witness ==
    /\ Len(f_calls) = 2
    /\ f_calls[1].ret
    /\ ~f_calls[2].ret
    /\ pending = 0
    /\ ~cb

\* C4: a tick at which the window reports closed does not invoke f, requests
\* no frame, leaves no frame registered and empties the cell cb, on the first
\* tick and on later ticks alike.
C4_ClosedStops ==
    [][(IsTick /\ query' = "true") =>
          /\ f_calls' = f_calls
          /\ raf_log' = raf_log
          /\ last_timestamp' = last_timestamp
          /\ pending' = 0
          /\ cb' = FALSE]_vars

C4_Witness ==
    /\ query = "true"
    /\ nticks = 3
    /\ Len(f_calls) = 1
    /\ Last(f_calls).ret
    /\ pending = 0
    /\ ~cb

\* C5: the loop never has more than one frame registration pending, and a
\* tick consumes the pending one and makes at most one new request.
C5_AtMostOnePending ==
    /\ [](pending \in {0, 1})
    /\ [][IsTick => /\ pending = 1
                    /\ Len(raf_log') <= Len(raf_log) + 1
                    /\ pending' = IF Len(raf_log') > Len(raf_log) /\ Last(raf_log')
                                    THEN 1 ELSE 0]_vars

C5_Witness ==
    /\ pending = 1
    /\ nticks = 3
    /\ Len(raf_log) = 4

Range(seq) == {seq[i] : i \in DOMAIN seq}

\* The loop has been started and has neither stopped nor aborted.
Running == LoopState \in {"Start", "Primed", "Ticking"}

\* C6 as stated: from Primed, the next delivered notification always invokes
\* f with a delta.
C6_PrimedAlwaysInvokes ==
    [][(LoopState = "Primed" /\ IsTick) =>
          Len(f_calls') = Len(f_calls) + 1]_vars

\* C6 as amended: from Primed, the next delivered notification invokes f with
\* the delta to the priming timestamp when its closed check finds the window
\* open, and stops the loop without invoking f when the check finds the
\* window closed or the query fails; nothing but a delivered notification
\* takes the loop out of Primed.
C6_PrimedSuccessors ==
    /\ [][(LoopState = "Primed" /\ IsTick) =>
            IF ClosedCheck(query')
              THEN f_calls' = f_calls /\ LoopState' = "Stopped"
              ELSE /\ Len(f_calls') = 1
                   /\ f_calls'[1].delta = Last(ticks') - Unwrap(last_timestamp)
                   /\ LoopState' \in {"Ticking", "Stopped", "Aborted"}
                   /\ LoopState' = "Ticking" <=> (f_calls'[1].ret /\ Last(raf_log'))
                   /\ LoopState' = "Stopped" <=> ~f_calls'[1].ret]_vars
    /\ [][(LoopState = "Primed" /\ LoopState' # "Primed") => IsTick]_vars

C6_Witness ==
    /\ LoopState = "Stopped"
    /\ nticks = 2
    /\ last_timestamp = Some(16)
    /\ f_calls = <<>>
    /\ query = "true"

\* The loop is in Stopped with everything released and nothing left to run.
StoppedReleased ==
    /\ LoopState = "Stopped"
    /\ ~cb
    /\ pending = 0
    /\ ~ENABLED Tick
    /\ ~ENABLED (\E ok \in BOOLEAN : Start(ok))

\* C7: when f has returned false, or the window is closed while the loop is
\* running, the loop eventually is in Stopped with the cell empty, nothing
\* pending and no action of the loop enabled, and it stays there.
C7_StoppedIsReachedAndTerminal ==
    /\ (FReturnedFalse \/ (closed /\ Running)) ~> StoppedReleased
    /\ [][LoopState = "Stopped" =>
            /\ LoopState' = "Stopped"
            /\ UNCHANGED <<pc, cb, last_timestamp, f_calls, pending, raf_log,
                           nticks, ticks, query, work>>]_vars

C7_Witness ==
    /\ StoppedReleased
    /\ closed
    /\ query = "true"
    /\ Len(f_calls) = 2
    /\ \A i \in DOMAIN f_calls : f_calls[i].ret

\* C8: while no scheduling call has failed, the loop is in Stopped only if f
\* has returned false or a tick's closed check found the window closed; as
\* long as neither has happened, exactly one frame is registered and the
\* cell holds the closure.
C8_NeverStopsOnItsOwn ==
    /\ LoopState = "Stopped" => (FReturnedFalse \/ SawClosed)
    /\ (pc = "running" /\ ~FReturnedFalse /\ ~SawClosed) =>
          (pending = 1 /\ cb /\ Running)

C8_Witness ==
    /\ nticks = 3
    /\ Len(f_calls) = 2
    /\ \A i \in DOMAIN f_calls : f_calls[i].ret
    /\ ~closed
    /\ pending = 1
    /\ cb

\* C9: a failed scheduling call aborts the operation where it is made: it is
\* the last scheduling call, nothing is registered, and afterwards no tick is
\* delivered and f is not invoked.
C9_SchedulingFailureIsFatal ==
    /\ [](RafFailed =>
            /\ pc = "aborted"
            /\ pending = 0
            /\ \A i \in DOMAIN raf_log : ~raf_log[i] => i = Len(raf_log)
            /\ nticks > 0 => Last(work) = "schedule_failed"
            /\ (nticks = 1 /\ query = "false") => last_timestamp = None)
    /\ [][RafFailed =>
            /\ f_calls' = f_calls
            /\ raf_log' = raf_log
            /\ nticks' = nticks]_vars

C9_Witness ==
    /\ pc = "aborted"
    /\ raf_log = <<TRUE, TRUE, FALSE>>
    /\ Len(f_calls) = 1
    /\ Last(f_calls).ret

\* The cancellation checks of a tick.
Checks == {"closed_check", "check_f_result"}

\* C10 as stated: in every tick both cancellation checks come before all
\* other work of the tick.
C10_BothChecksFirst ==
    \A i, j \in DOMAIN work :
        (work[j] \in Checks /\ work[i] \notin Checks) => j < i

\* C10 as amended: the closed-window check is the first step of every tick;
\* the check of f's result comes in the tick that invokes f, right after the
\* invocation (so after the timestamp bookkeeping) and before the
\* rescheduling or the release that it decides.
C10_CheckOrder ==
    /\ [](work # <<>> =>
            /\ work[1] = "closed_check"
            /\ \A i \in DOMAIN work :
                 /\ work[i] = "closed_check" => i = 1
                 /\ work[i] = "check_f_result" =>
                       /\ i = 4
                       /\ work[i - 1] = "invoke_f"
                       /\ work[i - 2] = "record_timestamp"
                       /\ i + 1 \in DOMAIN work
                 /\ work[i] = "invoke_f" =>
                       (i + 1 \in DOMAIN work /\ work[i + 1] = "check_f_result")
                 /\ (work[i] \in {"schedule", "schedule_failed", "release"}
                       /\ "invoke_f" \in Range(work)) => i = 5)
    /\ [][IsTick =>
            /\ "invoke_f" \in Range(work') <=> f_calls' # f_calls
            /\ "release" \in Range(work') <=> (cb /\ ~cb')
            /\ "schedule" \in Range(work') <=> raf_log' = Append(raf_log, TRUE)
            /\ "schedule_failed" \in Range(work') <=> raf_log' = Append(raf_log, FALSE)
            /\ "record_timestamp" \in Range(work') <=>
                  (last_timestamp' # last_timestamp \/ "invoke_f" \in Range(work'))]_vars

C10_Witness ==
    /\ work = <<"closed_check", "record_timestamp", "invoke_f",
                "check_f_result", "release">>
    /\ nticks = 2
    /\ pending = 0

\* C19: a tick whose closed query fails stops the loop as a tick at which
\* the window reports closed does: f is not invoked, the timestamp is not
\* recorded, no frame is requested or left registered, and the cell cb is
\* emptied.
C19_QueryFailureStops ==
    [][(IsTick /\ query' = "err") =>
          /\ f_calls' = f_calls
          /\ raf_log' = raf_log
          /\ last_timestamp' = last_timestamp
          /\ ticks' = ticks
          /\ pending' = 0
          /\ cb' = FALSE
          /\ work' = <<"closed_check", "release">>]_vars

C19_Witness ==
    /\ query = "err"
    /\ ~closed
    /\ nticks = 3
    /\ Len(f_calls) = 1
    /\ Last(f_calls).ret
    /\ pending = 0
    /\ ~cb

\* The mousedown-on-the-element and mouseup-on-the-window events among the
\* first n events that came after the Clicked component was added.
Presses(n) ==
    SelectSeq(SubSeq(events, reported_at + 1, n),
              LAMBDA e : e \in {"down", "up"})

\* The most recent of those events was a mousedown.
PressedAfter(n) == Presses(n) # <<>> /\ Last(Presses(n)) = "down"

\* C11: once report_clicked has added the component, clicked() returns true
\* exactly when the most recent mousedown-on-the-element or
\* mouseup-on-the-window event since then was a mousedown: false before any
\* such event and after every mouseup.
C11_ClickedFollowsPresses ==
    /\ [](clicked_cmp # None =>
            (ClickedFn(clicked_cmp) = "true" <=> PressedAfter(Len(events))))
    /\ [](clicked_cmp # None => ClickedFn(clicked_cmp) \in {"true", "false"})
    /\ [][(clicked_ret' # clicked_ret /\ clicked_cmp # None) =>
            clicked_ret'.out = IF PressedAfter(Len(events))
                                 THEN "true" ELSE "false"]_cvars

C11_Witness ==
    /\ events = <<"down", "up">>
    /\ reported_at = 0
    /\ clicked_ret = [made |-> TRUE, had |-> TRUE, out |-> "false"]
    /\ clicked_cmp = Some(FALSE)

\* The moves among the events that came after slide callback k was
\* registered and found the element pressed.
PressedMoves(k) ==
    {i \in DOMAIN events :
        /\ i > slides[k].since
        /\ events[i] = "move"
        /\ PressedAfter(i - 1)}

\* C13: a slide callback is invoked once for every mouse move that comes
\* while the element is pressed (after a mousedown on it and before the next
\* mouseup), and for no other move.
C13_SlideOnlyWhileClicked ==
    /\ [](\A k \in DOMAIN slides :
            Len(slides[k].calls) = Cardinality(PressedMoves(k)))
    /\ [][(Len(events') = Len(events) + 1 /\ Last(events') = "move") =>
            \A k \in DOMAIN slides :
                Len(slides'[k].calls) = Len(slides[k].calls)
                    + (IF PressedAfter(Len(events)) THEN 1 ELSE 0)]_cvars

C13_Witness ==
    /\ events = <<"down", "move", "up">>
    /\ Len(slides) = 2
    /\ \A k \in DOMAIN slides : slides[k].since = 0 /\ Len(slides[k].calls) = 1

\* C14 as stated: clicked() called on an element without the Clicked
\* component panics instead of returning a value.
C14_ClickedPanicsWithoutComponent ==
    (clicked_ret.made /\ ~clicked_ret.had) => clicked_ret.out = "panic"

\* C18: a call of report_clicked on an element that has the Clicked component
\* adds no listener and leaves the flag as it is, so the element never has
\* more than one mousedown and one mouseup listener from it.
C18_ReportClickedIdempotent ==
    /\ [](listeners.down <= 1 /\ listeners.up <= 1)
    /\ [](clicked_cmp # None <=> listeners = [down |-> 1, up |-> 1])
    /\ [][(report_calls' = report_calls + 1 /\ clicked_cmp # None) =>
            UNCHANGED <<clicked_cmp, listeners, reported_at>>]_cvars

C18_Witness ==
    /\ report_calls = 2
    /\ slides = <<>>
    /\ events = <<"down">>
    /\ reported_at = 0
    /\ clicked_cmp = Some(TRUE)
    /\ listeners = [down |-> 1, up |-> 1]

\* The distance of the mouse from the element's left edge.
SlideOffset == slide_args.mouse_x - slide_args.left

\* C12: for a positive element width the position passed to the slide
\* callback is (mouse_x - left) / width limited to [0, 1]: 0 when the mouse
\* is left of the element, 1 when it is right of it, the ratio in between.
C12_SlidePositionClamped ==
    (slide_pos # F64Unset /\ slide_args.width > 0) =>
        /\ slide_pos.k = "num"
        /\ ~F64Lt(slide_pos, F64Zero) /\ ~F64Lt(F64One, slide_pos)
        /\ SlideOffset <= 0 => F64Eq(slide_pos, F64Zero)
        /\ SlideOffset >= slide_args.width => F64Eq(slide_pos, F64One)
        /\ (0 < SlideOffset /\ SlideOffset < slide_args.width) =>
              slide_pos.n * slide_args.width = SlideOffset * slide_pos.d
        /\ (slide_args.width = 100 /\ slide_args.left = 0) =>
              /\ slide_args.mouse_x = 150 => F64Eq(slide_pos, F64(1, 1))
              /\ slide_args.mouse_x = -10 => F64Eq(slide_pos, F64(0, 1))
              /\ slide_args.mouse_x = 50 => F64Eq(slide_pos, F64(1, 2))

C12_Witness ==
    /\ slide_args = [mouse_x |-> 50, left |-> 0, width |-> 100]
    /\ F64Eq(slide_pos, F64(1, 2))

\* The properties flip_if_offscreen emitted for the vertical / horizontal axis.
VStyle == SelectSeq(flip_out.style, LAMBDA o : o.side \in {"Top", "Bottom"})
HStyle == SelectSeq(flip_out.style, LAMBDA o : o.side \in {"Left", "Right"})

\* The spacing is a pixel amount on one of the two sides.
IsPx(spacing, side1, side2) ==
    /\ spacing # None
    /\ Unwrap(spacing).unit = "Px"
    /\ Unwrap(spacing).side \in {side1, side2}

\* The spacing is given and is not a pixel amount on one of the two sides.
IsMalformed(spacing, side1, side2) ==
    spacing # None /\ ~IsPx(spacing, side1, side2)

\* C15: a spacing that is not a pixel-unit top/bottom (vertical) or
\* left/right (horizontal) is warned about once and yields no property for
\* its axis; the other axis yields its property as usual and set_style is
\* called once with what was produced.
C15_MalformedSpacingSkipped ==
    flip_out.called =>
        /\ flip_out.set_style = 1
        /\ IsMalformed(flip_args.spacing_v, "Top", "Bottom") =>
              /\ VStyle = <<>>
              /\ Len(SelectSeq(flip_out.warnings, LAMBDA w : w = "v")) = 1
              /\ Len(HStyle) = IF IsPx(flip_args.spacing_h, "Left", "Right")
                                 THEN 1 ELSE 0
        /\ IsMalformed(flip_args.spacing_h, "Left", "Right") =>
              /\ HStyle = <<>>
              /\ Len(SelectSeq(flip_out.warnings, LAMBDA w : w = "h")) = 1
              /\ Len(VStyle) = IF IsPx(flip_args.spacing_v, "Top", "Bottom")
                                 THEN 1 ELSE 0
        /\ Len(flip_out.style) = Len(VStyle) + Len(HStyle)

C15_Witness ==
    /\ flip_out.called
    /\ flip_args.spacing_v = Some([side |-> "Top", unit |-> "Other", val |-> 0])
    /\ flip_args.spacing_h = Some([side |-> "Right", unit |-> "Px", val |-> 1])
    /\ flip_out.warnings = <<"v">>
    /\ Len(flip_out.style) = 1
    /\ flip_out.set_style = 1

\* The side C17 gives for a pixel spacing.
ExpectedSide(prop, a) ==
    IF prop.side = "Top"
      THEN IF a.parent.bottom + prop.val + a.self_height > a.window_height
             THEN "Bottom" ELSE "Top"
    ELSE IF prop.side = "Bottom"
      THEN IF a.parent.top - prop.val - a.self_height < 0
             THEN "Top" ELSE "Bottom"
    ELSE IF prop.side = "Left"
      THEN IF a.parent.right + prop.val + a.self_width > a.window_width
             THEN "Right" ELSE "Left"
    ELSE IF a.parent.left - prop.val - a.self_width < 0
             THEN "Left" ELSE "Right"

\* C17: a pixel spacing is emitted on the mirrored side exactly when the
\* preferred side would be off-screen; the offset emitted depends on the
\* pixel amount alone, not on the side chosen; each axis emits at most one
\* property.
C17_FlipsExactlyWhenOffscreen ==
    flip_out.called =>
        /\ Len(VStyle) <= 1 /\ Len(HStyle) <= 1
        /\ Len(flip_out.style) = Len(VStyle) + Len(HStyle)
        /\ IsPx(flip_args.spacing_v, "Top", "Bottom") =>
              /\ Len(VStyle) = 1
              /\ VStyle[1].side = ExpectedSide(Unwrap(flip_args.spacing_v), flip_args)
              /\ VStyle[1].pct = 100
              /\ VStyle[1].px = Unwrap(flip_args.spacing_v).val
        /\ IsPx(flip_args.spacing_h, "Left", "Right") =>
              /\ Len(HStyle) = 1
              /\ HStyle[1].side = ExpectedSide(Unwrap(flip_args.spacing_h), flip_args)
              /\ HStyle[1].pct = 100
              /\ HStyle[1].px = -Unwrap(flip_args.spacing_h).val

C17_Witness ==
    /\ flip_out.called
    /\ flip_args.spacing_v = Some([side |-> "Top", unit |-> "Px", val |-> 1])
    /\ flip_args.spacing_h = Some([side |-> "Right", unit |-> "Px", val |-> 1])
    /\ flip_args.parent.bottom + 1 + flip_args.self_height > flip_args.window_height
    /\ flip_args.parent.left - 1 - flip_args.self_width < 0
    /\ flip_out.style = <<Offset("Bottom", 1), Offset("Left", -1)>>

\* How often call id is in the host's queue.
Queued(id) == Cardinality({i \in DOMAIN flow_queue : flow_queue[i] = id})

\* The places of the log where the f of call id runs.
RunsOf(id) ==
    {i \in DOMAIN flow_log : flow_log[i] = [op |-> "run", id |-> id]}

\* Call id was made and its scheduling request succeeded.
Registered(id) == IF id \in DOMAIN flow_calls THEN flow_calls[id] ELSE FALSE

\* The f of call id has run once and its notification is gone.
InvokedOnce(id) ==
    IF id \in DOMAIN flow_runs
      THEN flow_runs[id] = 1 /\ Queued(id) = 0
      ELSE FALSE

\* C16: every call of set_on_next_flow whose scheduling request succeeds
\* registers one frame notification; its f is not invoked by the call, is
\* invoked when that notification is delivered, and is invoked once: N calls
\* give N invocations, one per call.
C16_OncePerCall ==
    /\ [](\A id \in DOMAIN flow_calls :
            /\ Cardinality(RunsOf(id)) = flow_runs[id]
            /\ flow_calls[id] =>
                  \/ Queued(id) = 1 /\ flow_runs[id] = 0
                  \/ Queued(id) = 0 /\ flow_runs[id] = 1
            /\ ~flow_calls[id] => (Queued(id) = 0 /\ flow_runs[id] = 0))
    /\ [][Len(flow_calls') = Len(flow_calls) + 1 =>
            /\ flow_runs' = Append(flow_runs, 0)
            /\ Len(flow_queue') = Len(flow_queue)
                                    + (IF Last(flow_calls') THEN 1 ELSE 0)]_nvars
    /\ \A id \in 1 .. MaxFlows :
          Registered(id) ~> InvokedOnce(id)

C16_Witness ==
    /\ flow_calls = <<TRUE, TRUE, TRUE>>
    /\ flow_runs = <<1, 1, 1>>
    /\ flow_queue = <<>>
    /\ flow_log = <<[op |-> "call", id |-> 1], [op |-> "call", id |-> 2],
                    [op |-> "run", id |-> 1], [op |-> "call", id |-> 3],
                    [op |-> "run", id |-> 2], [op |-> "run", id |-> 3]>>

====
